---- MODULE Spec2Model ----
(***************************************************************************)
(* SkillSphere: the recommendation engine of app/routes.py                 *)
(* (get_recommended_posts, recommend_users_for_post) and the application   *)
(* workflow around it (apply, invite, accept, reject, leave).              *)
(*                                                                         *)
(* Representation.                                                         *)
(*  - Python None is the string "None"; the empty string is "".            *)
(*  - Time is counted in whole days (timedelta.days is all the code reads).*)
(*  - Scores are fixed-point integers.  total_score is kept in units of    *)
(*    1/20, recency_score in units of 1/30, location_score in units of     *)
(*    1/10 and nlp_score in units of 1/100 (rounded down).                 *)
(*  - A text is represented by the one vocabulary term it contains after   *)
(*    stop-word removal, or by a text without any term.  The L2-normalised *)
(*    TF-IDF row of such a document is a unit vector (or the zero vector). *)
(*  - Coordinates are <<latitude, longitude>> in hundredths of a degree;   *)
(*    great_circle is tabulated for the places used.                       *)
(***************************************************************************)
EXTENDS Integers, Sequences, FiniteSets, TLC

VARIABLES
    profiles,      \* user id -> Profile row (with its ProfileSkill rows)
    posts,         \* sequence of Post rows, Post.id = index
    apps,          \* set of Application rows
    teammates,     \* post id -> set of user ids (table post_teammates)
    now,           \* current day
    rec,           \* the last answer of get_recommended_posts on this snapshot
    urec,          \* the last answer of recommend_users_for_post on this snapshot
    credited,      \* history: application id -> how often manage_post raised the
                   \* applicant's skill levels on account of that application
    threads,       \* server thread -> the request it handles, past its duplicate check
    rooms,         \* Socket.IO rooms of namespace /chat: pairs <<post id, user id>>
    messages,      \* ChatMessage rows: pairs <<post id, sender id>>
    delivered      \* the last broadcast into a room and the users it reached

vars == <<profiles, posts, apps, teammates, now, rec, urec, credited,
          threads, rooms, messages, delivered>>

None == "None"

\* a profile or post without latitude and longitude
NoCoords == <<>>

Users == {1, 2, 3}

Max(a, b) == IF a >= b THEN a ELSE b
Min(a, b) == IF a <= b THEN a ELSE b

Range(s) == {s[i] : i \in DOMAIN s}

\* str.lower() on the skill names that occur
Lower(name) ==
    CASE name = "Python" -> "python"
      [] name = "React"  -> "react"
      [] name = "Flask"  -> "flask"
      [] OTHER           -> name

\* truthiness of an Optional[str]
Truthy(s) == s \notin {None, ""}

Terms == {"ai", "web"}
NoTerm == "-"

\* the vocabulary term of a text (stop words and the empty text give none)
TermOf(text) == IF text \in Terms THEN text ELSE NoTerm

SKILL_CATEGORIES ==
    [Frontend |-> {"react", "angular", "vue", "javascript", "html", "css", "typescript", "svelte"},
     Backend |-> {"python", "java", "node.js", "ruby", "php", "go", "flask", "django", "express.js"},
     Database |-> {"sql", "mysql", "postgresql", "mongodb", "redis"},
     DevOps |-> {"docker", "kubernetes", "aws", "gcp", "azure", "jenkins", "ci/cd"},
     Mobile |-> {"swift", "kotlin", "react native", "flutter", "ios", "android"},
     DataScience |-> {"machine learning", "tensorflow", "pytorch", "pandas", "numpy", "scikit-learn"},
     Design |-> {"figma", "adobe xd", "sketch", "ui", "ux", "prototyping"}]

COMPLEMENTARY_PAIRS ==
    [Frontend |-> {"Backend", "Design", "Database"},
     Backend |-> {"Frontend", "DevOps", "DataScience", "Database"},
     Design |-> {"Frontend", "Mobile"},
     DataScience |-> {"Backend", "Database"},
     Mobile |-> {"Backend", "Design"}]

\* WEIGHTS of total_score, in units of 1/20 per unit of each component:
\* skill 4.0, complementary 8.0, rarity 2.0, event_type 3.0 (times 20);
\* recency 1.5 on a score in 1/30; location 6.0 on a score in 1/10;
\* nlp 10.0 on a score in 1/100.
WEIGHTS ==
    [skill |-> 80, complementary |-> 160, rarity |-> 40, event_type |-> 60,
     recency |-> 1, location |-> 12, nlp |-> 2]

Chennai == <<1308, 8027>>
Vellore == <<1292, 7913>>
Kanchipuram == <<1283, 7970>>
Bengaluru == <<1297, 7759>>
Delhi == <<2861, 7721>>
\* a place on the equator: its latitude is the float 0.0
Pontianak == <<0, 10933>>

\* a latitude or longitude column that is NULL while the other one is set
NoneFloat == 99999

\* `latitude is not None and longitude is not None`
BothSet(c) == c # NoCoords /\ c[1] # NoneFloat /\ c[2] # NoneFloat

\* `latitude and longitude`: the truth value of two Optional[float]
BothTruthy(c) == BothSet(c) /\ c[1] # 0 /\ c[2] # 0

\* a distance table that lists each pair of places in one direction only
OneWayDistance(a, b) ==
    IF a = b THEN 0
    ELSE CASE <<a, b>> = <<Chennai, Vellore>>         -> 125
           [] <<a, b>> = <<Chennai, Kanchipuram>>     -> 68
           [] <<a, b>> = <<Kanchipuram, Vellore>>     -> 63
           [] <<a, b>> = <<Bengaluru, Chennai>>       -> 291
           [] <<a, b>> = <<Bengaluru, Vellore>>       -> 167
           [] <<a, b>> = <<Bengaluru, Kanchipuram>>   -> 229
           [] OTHER                                   -> 1750

\* geopy.distance.great_circle(a, b).kilometers, rounded to whole km
great_circle(a, b) ==
    IF a = b THEN 0
    ELSE CASE {a, b} = {Chennai, Vellore}         -> 125
           [] {a, b} = {Chennai, Kanchipuram}     -> 68
           [] {a, b} = {Kanchipuram, Vellore}     -> 63
           [] {a, b} = {Bengaluru, Chennai}       -> 291
           [] {a, b} = {Bengaluru, Vellore}       -> 167
           [] {a, b} = {Bengaluru, Kanchipuram}   -> 229
           [] OTHER                               -> 1750

PostIds == DOMAIN posts

-----------------------------------------------------------------------------
(* get_recommended_posts: the NLP data preparation                         *)

\* user_applications_for_nlp
UserApps(u) == {a \in apps : a.applicant_id = u}

\* len(user_liked_texts): the applied posts' texts, else the bio
LikedCount(u) ==
    IF UserApps(u) # {} THEN Cardinality(UserApps(u))
    ELSE IF Truthy(profiles[u].bio) THEN 1 ELSE 0

\* how many of user_liked_texts contain term t
LikedTermCount(u, t) ==
    IF UserApps(u) # {}
    THEN Cardinality({a \in UserApps(u) : TermOf(posts[a.post_id].text) = t})
    ELSE IF Truthy(profiles[u].bio) /\ TermOf(profiles[u].bio) = t THEN 1 ELSE 0

\* the vocabulary TfidfVectorizer builds from corpus
Vocabulary(u) ==
    {t \in Terms : (\E p \in PostIds : TermOf(posts[p].text) = t) \/ LikedTermCount(u, t) > 0}

\* fit_transform ran: len(corpus) > 1 and no ValueError (empty vocabulary)
Vectorized(u) == Len(posts) + LikedCount(u) > 1 /\ Vocabulary(u) # {}

\* user_taste_vector is not None
HasTasteVector(u) == Vectorized(u) /\ LikedCount(u) > 0

\* the integer square root of x, searched between lo and hi
RECURSIVE ISqrtBetween(_, _, _)
ISqrtBetween(x, lo, hi) ==
    IF lo >= hi THEN lo
    ELSE LET mid == (lo + hi + 1) \div 2
         IN IF mid * mid <= x THEN ISqrtBetween(x, mid, hi) ELSE ISqrtBetween(x, lo, mid - 1)

ISqrt(x) == ISqrtBetween(x, 0, 100)

\* a similarity that defaults to 1 where there is no taste vector to compare
NlpDefaultsToOne(u, p) ==
    LET t == TermOf(posts[p].text)
        norm2 == LET c == [x \in Terms |-> LikedTermCount(u, x)]
                 IN c["ai"] * c["ai"] + c["web"] * c["web"]
    IN IF HasTasteVector(u) /\ norm2 > 0 /\ t # NoTerm
       THEN ISqrt((10000 * LikedTermCount(u, t) * LikedTermCount(u, t)) \div norm2)
       ELSE 100

\* cosine_similarity(user_taste_vector, post_vector), in 1/100
nlp_score(u, p) ==
    LET t == TermOf(posts[p].text)
        norm2 == LET c == [x \in Terms |-> LikedTermCount(u, x)]
                 IN c["ai"] * c["ai"] + c["web"] * c["web"]
    IN IF HasTasteVector(u) /\ norm2 > 0 /\ t # NoTerm
       THEN ISqrt((10000 * LikedTermCount(u, t) * LikedTermCount(u, t)) \div norm2)
       ELSE 0

-----------------------------------------------------------------------------
(* get_recommended_posts: the component scores                             *)

user_skills(u) == {Lower(n) : n \in DOMAIN profiles[u].skill_associations}

is_new_user(u) ==
    user_skills(u) = {} /\ UserApps(u) = {} /\ ~Truthy(profiles[u].bio)

user_event_types(u) ==
    {posts[a.post_id].event_type : a \in {b \in UserApps(u) : Truthy(posts[b.post_id].event_type)}}
        \cup {posts[p].event_type : p \in {q \in PostIds : posts[q].creator_id = u
                                                            /\ Truthy(posts[q].event_type)}}

applied_post_ids(u) == {a.post_id : a \in UserApps(u)}

teammate_post_ids(u) == {p \in PostIds : u \in teammates[p]}

required_skills(p) == {Lower(n) : n \in posts[p].required_skills}

matched_skills(u, p) == user_skills(u) \cap required_skills(p)

skill_score(u, p) == Cardinality(matched_skills(u, p))

\* count(post_required_skills.post_id) joined to the Skill row named name
SkillUsage(name) == Cardinality({p \in PostIds : name \in posts[p].required_skills})

rarity_bonus(u, p) == Cardinality({s \in matched_skills(u, p) : SkillUsage(s) < 5})

SkillCats(skills) ==
    {cat \in DOMAIN SKILL_CATEGORIES : \E s \in skills : s \in SKILL_CATEGORIES[cat]}

\* every category the post requires and the user lacks, complementary or not
CountsMissingCategories(u, p) ==
    Cardinality(SkillCats(required_skills(p)) \ SkillCats(user_skills(u)))

complementary_score(u, p) ==
    LET user_skill_cats == SkillCats(user_skills(u))
        missing_cats == SkillCats(required_skills(p)) \ user_skill_cats
    IN Cardinality({m \in missing_cats :
            \E c \in user_skill_cats : c \in DOMAIN COMPLEMENTARY_PAIRS /\ m \in COMPLEMENTARY_PAIRS[c]})

event_type_score(u, p) == IF posts[p].event_type \in user_event_types(u) THEN 1 ELSE 0

\* 1 - days / 30 without the clamp, in 1/30
UnclampedRecency(p) == 30 - (now - posts[p].timestamp)

\* max(0, 1 - days / 30), in 1/30
recency_score(p) == Max(0, 30 - (now - posts[p].timestamp))

\* the tiers of the legacy variant: 1.0 up to 50 km, 0.7 up to 100 km, 0.3 up to 300 km
LegacyLocationScore(u, p) ==
    IF BothSet(profiles[u].coords) /\ BothSet(posts[p].coords)
    THEN LET distance_km == great_circle(profiles[u].coords, posts[p].coords)
         IN IF distance_km <= 50 THEN 10
            ELSE IF distance_km <= 100 THEN 7
            ELSE IF distance_km <= 300 THEN 3
            ELSE 0
    ELSE 0

\* the tiered proximity score, in 1/10
location_score(u, p) ==
    IF BothSet(profiles[u].coords) /\ BothSet(posts[p].coords)
    THEN LET distance_km == great_circle(profiles[u].coords, posts[p].coords)
         IN IF distance_km <= 50 THEN 10
            ELSE IF distance_km <= 120 THEN 6
            ELSE IF distance_km <= 300 THEN 3
            ELSE 0
    ELSE 0

total_score(u, p) ==
    skill_score(u, p) * WEIGHTS.skill
    + complementary_score(u, p) * WEIGHTS.complementary
    + rarity_bonus(u, p) * WEIGHTS.rarity
    + event_type_score(u, p) * WEIGHTS.event_type
    + recency_score(p) * WEIGHTS.recency
    + location_score(u, p) * WEIGHTS.location
    + nlp_score(u, p) * WEIGHTS.nlp

-----------------------------------------------------------------------------
(* get_recommended_posts: candidates, ranking, diversity cap, backfill     *)

\* the rows of a result set in primary-key order
RECURSIVE IdsAscending(_)
IdsAscending(S) ==
    IF S = {} THEN <<>>
    ELSE LET m == CHOOSE x \in S : \A y \in S : x <= y
         IN <<m>> \o IdsAscending(S \ {m})

OrderByIdAscending(S) == IdsAscending(S)

\* ORDER BY Post.timestamp DESC
RECURSIVE OrderByTimestampDesc(_)
OrderByTimestampDesc(S) ==
    IF S = {} THEN <<>>
    ELSE LET m == CHOOSE x \in S : \A y \in S :
                      \/ posts[x].timestamp > posts[y].timestamp
                      \/ (posts[x].timestamp = posts[y].timestamp /\ x >= y)
         IN <<m>> \o OrderByTimestampDesc(S \ {m})

PostsOfOthers(u) == {p \in PostIds : posts[p].creator_id # u}

\* select(Post).where(Post.creator_id != user.id, Post.applications_closed == False)
OpenPostsOfOthers(u) ==
    {p \in PostIds : posts[p].creator_id # u /\ ~posts[p].applications_closed}

\* the cold-start answer: all_posts[:5]
ColdStartPosts(u) ==
    LET all_posts == OrderByTimestampDesc(OpenPostsOfOthers(u))
    IN SubSeq(all_posts, 1, Min(5, Len(all_posts)))

\* every order of the candidate rows
AnyRowOrder(u) ==
    LET S == {p \in PostIds : posts[p].creator_id # u /\ ~posts[p].applications_closed}
    IN {s \in [1..Cardinality(S) -> S] : \A i, j \in DOMAIN s : i # j => s[i] # s[j]}

\* the row orders in which the database may hand out candidate_posts:
\* one table scan in primary-key order
candidate_posts(u) == {IdsAscending(OpenPostsOfOthers(u))}

\* the gender filter of the scoring loop
GenderConflict(u, p) ==
    /\ Truthy(posts[p].gender_requirement)
    /\ posts[p].gender_requirement # "Any"
    /\ posts[p].gender_requirement # profiles[u].gender

SkippedOnGenderOnly(u, p) == GenderConflict(u, p)

\* the loop's two `continue` filters
SkippedCandidate(u, p) ==
    \/ p \in applied_post_ids(u) \/ p \in teammate_post_ids(u)
    \/ GenderConflict(u, p)

KeepsAnyScore(score) == score >= 0

\* if total_score > 0: scored_posts.append(...)
KeepsScore(score) == score > 0

\* the scoring loop from candidate i on: scored_posts as <<total_score, post id>>
RECURSIVE ScoredPosts(_, _, _, _)
ScoredPosts(u, candidates, i, acc) ==
    IF i > Len(candidates) THEN acc
    ELSE LET p == candidates[i]
         IN IF SkippedCandidate(u, p) THEN ScoredPosts(u, candidates, i + 1, acc)
            ELSE LET score == total_score(u, p)
                 IN IF KeepsScore(score)
                    THEN ScoredPosts(u, candidates, i + 1, Append(acc, <<score, p>>))
                    ELSE ScoredPosts(u, candidates, i + 1, acc)

KeepCandidateOrder(seq, acc) == seq

\* list.sort(key=lambda x: x[0], reverse=True): stable, descending
RECURSIVE SortByScore(_, _)
SortByScore(seq, acc) ==
    IF seq = <<>> THEN acc
    ELSE LET x == Head(seq)
             k == Cardinality({i \in DOMAIN acc : acc[i][1] >= x[1]})
         IN SortByScore(Tail(seq), SubSeq(acc, 1, k) \o <<x>> \o SubSeq(acc, k + 1, Len(acc)))

CreatorCapAtThree(count) == count >= 3

\* seen_creators.get(creator_id, 0) >= 2
CreatorCapReached(count) == count >= 2

\* the capped pass over the sorted posts, from position i with unique_posts = acc
RECURSIVE CappedPass(_, _, _, _)
CappedPass(sorted, i, acc, limit) ==
    IF i > Len(sorted) THEN acc
    ELSE LET creator_id == posts[sorted[i]].creator_id
             seen == Cardinality({j \in DOMAIN acc : posts[acc[j]].creator_id = creator_id})
         IN IF CreatorCapReached(seen) THEN CappedPass(sorted, i + 1, acc, limit)
            ELSE IF Len(acc) + 1 >= limit THEN Append(acc, sorted[i])
            ELSE CappedPass(sorted, i + 1, Append(acc, sorted[i]), limit)

NeverBackfill(unique_posts, sorted, limit) == FALSE

\* the backfill condition
NeedsBackfill(unique_posts, sorted, limit) ==
    Len(unique_posts) < limit /\ Len(unique_posts) < Len(sorted)

\* unique_posts.extend(remaining_posts[:needed])
Backfill(unique_posts, sorted, limit) ==
    LET remaining_posts == SelectSeq(sorted, LAMBDA p : p \notin Range(unique_posts))
        needed == limit - Len(unique_posts)
    IN unique_posts \o SubSeq(remaining_posts, 1, Min(needed, Len(remaining_posts)))

\* what one call returns, with the facts of the path it took
get_recommended_posts(u, limit, candidates) ==
    IF is_new_user(u)
    THEN [result |-> ColdStartPosts(u), cold |-> TRUE, capped |-> 0, backfilled |-> FALSE]
    ELSE LET scored_posts == SortByScore(ScoredPosts(u, candidates, 1, <<>>), <<>>)
             sorted == [i \in DOMAIN scored_posts |-> scored_posts[i][2]]
             unique_posts == CappedPass(sorted, 1, <<>>, limit)
         IN IF NeedsBackfill(unique_posts, sorted, limit)
            THEN [result |-> Backfill(unique_posts, sorted, limit), cold |-> FALSE,
                  capped |-> Len(unique_posts), backfilled |-> TRUE]
            ELSE [result |-> unique_posts, cold |-> FALSE,
                  capped |-> Len(unique_posts), backfilled |-> FALSE]

-----------------------------------------------------------------------------
(* recommend_users_for_post                                                *)

teammate_ids(p) == teammates[p]

applicant_ids(p) == {a.applicant_id : a \in {b \in apps : b.post_id = p}}

ExcludeTeamAndCreator(p) == teammate_ids(p) \cup {posts[p].creator_id}

exclude_ids(p) == teammate_ids(p) \cup applicant_ids(p) \cup {posts[p].creator_id}

\* the row orders in which the database may hand out
\* select(User).where(User.id.notin_(exclude_ids)): one scan in primary-key order
user_candidates(p) == {IdsAscending(DOMAIN profiles \ exclude_ids(p))}

\* the loop over required_skills: 2 for the skill, 5 if verified, plus its level
RECURSIVE SkillPoints(_, _)
SkillPoints(u, names) ==
    IF names = {} THEN 0
    ELSE LET req_skill_name == CHOOSE x \in names : TRUE
             n == CHOOSE m \in DOMAIN profiles[u].skill_associations : Lower(m) = req_skill_name
             assoc == profiles[u].skill_associations[n]
         IN 2 + (IF assoc.is_verified THEN 5 ELSE 0) + assoc.level
              + SkillPoints(u, names \ {req_skill_name})

users_skill_score(p, u) == SkillPoints(u, user_skills(u) \cap required_skills(p))

\* location_score of recommend_users_for_post: 10 up to 50 km, 5 up to 100 km
users_location_score(p, u) ==
    IF BothTruthy(posts[p].coords) /\ BothTruthy(profiles[u].coords)
    THEN LET distance_km == great_circle(posts[p].coords, profiles[u].coords)
         IN IF distance_km <= 50 THEN 10
            ELSE IF distance_km <= 100 THEN 5
            ELSE 0
    ELSE 0

users_total_score(p, u) == users_skill_score(p, u) + users_location_score(p, u)

\* the loop over candidates from position i: scored_users as <<total_score, user id>>
RECURSIVE scored_users(_, _, _, _)
scored_users(p, candidates, i, acc) ==
    IF i > Len(candidates) THEN acc
    ELSE LET u == candidates[i]
             score == users_total_score(p, u)
         IN IF score > 0 THEN scored_users(p, candidates, i + 1, Append(acc, <<score, u>>))
            ELSE scored_users(p, candidates, i + 1, acc)

WholeList(seq, limit) == seq

\* scored_users[:limit]
TopOfList(seq, limit) == SubSeq(seq, 1, Min(limit, Len(seq)))

recommend_users_for_post(p, limit, candidates) ==
    LET sorted == SortByScore(scored_users(p, candidates, 1, <<>>), <<>>)
        top == TopOfList(sorted, limit)
    IN [i \in DOMAIN top |-> top[i][2]]

-----------------------------------------------------------------------------
(* Bounds                                                                  *)

MaxLimit == 4
MaxRankPosts == 4
MaxColdPosts == 6
MaxFilterPosts == 3
MaxAppId == 1
MaxLevel == 3
MaxUsers == 5
MaxRarityPosts == 5
MaxSkills == 2
MaxAge == 35
MaxTextPosts == 2
MaxThreads == 2
MaxRows == 2
MaxTeamSize == 2

Limits == 1..MaxLimit

-----------------------------------------------------------------------------
(* The call of the ranker                                                  *)

\* no answer held for the current snapshot
NoCall == [user |-> 0, limit |-> 0, result |-> <<>>, cold |-> FALSE, capped |-> 0,
           backfilled |-> FALSE, first |-> <<>>, calls |-> 0]

\* no answer of recommend_users_for_post held for the current snapshot
NoUserCall == [post |-> 0, limit |-> 0, result |-> <<>>]

\* a server thread that handles no request
Idle == [route |-> "idle", post_id |-> 0, applicant_id |-> 0, status |-> ""]

\* nothing broadcast yet
NoEmit == [event |-> "", post_id |-> 0, sender_id |-> 0, to |-> {}]

\* a ranking call that also raises the skill levels of the user it ranks for
RecommendAndRaise(u, limit) ==
    /\ rec.calls = 0 \/ (rec.calls = 1 /\ rec.user = u /\ rec.limit = limit)
    /\ \E candidates \in candidate_posts(u) :
          LET r == get_recommended_posts(u, limit, candidates)
              again == rec.user = u /\ rec.limit = limit
          IN rec' = [user |-> u, limit |-> limit, result |-> r.result, cold |-> r.cold,
                     capped |-> r.capped, backfilled |-> r.backfilled,
                     first |-> IF again THEN rec.first ELSE r.result,
                     calls |-> IF again THEN 2 ELSE 1]
    /\ profiles' = [profiles EXCEPT ![u].skill_associations =
                       [n \in DOMAIN @ |-> [@[n] EXCEPT !.level = Min(@ + 1, MaxLevel)]]]
    /\ UNCHANGED <<posts, apps, teammates, now, urec, credited>>
    /\ UNCHANGED <<threads, rooms, messages, delivered>>

\* route /recommend: get_recommended_posts(current_user).  rec observes one call
\* and its repetition on the same snapshot: the answer, the path taken and the
\* answer the first call gave
Recommend(u, limit) ==
    /\ rec.calls = 0 \/ (rec.calls = 1 /\ rec.user = u /\ rec.limit = limit)
    /\ \E candidates \in candidate_posts(u) :
          LET r == get_recommended_posts(u, limit, candidates)
              again == rec.user = u /\ rec.limit = limit
          IN rec' = [user |-> u, limit |-> limit, result |-> r.result, cold |-> r.cold,
                     capped |-> r.capped, backfilled |-> r.backfilled,
                     first |-> IF again THEN rec.first ELSE r.result,
                     calls |-> IF again THEN 2 ELSE 1]
    /\ UNCHANGED <<profiles, posts, apps, teammates, now, urec, credited>>
    /\ UNCHANGED <<threads, rooms, messages, delivered>>

\* recommend_users_for_post(post, limit); urec observes the answer
RecommendUsers(p, limit) ==
    /\ p \in PostIds
    /\ \E candidates \in user_candidates(p) :
          urec' = [post |-> p, limit |-> limit,
                   result |-> recommend_users_for_post(p, limit, candidates)]
    /\ UNCHANGED <<profiles, posts, apps, teammates, now, rec, credited>>
    /\ UNCHANGED <<threads, rooms, messages, delivered>>

-----------------------------------------------------------------------------
(* Rows                                                                    *)

ProfileSkill(level, is_verified) == [level |-> level, is_verified |-> is_verified]

Profile(gender, bio, coords, skill_associations) ==
    [gender |-> gender, bio |-> bio, coords |-> coords,
     skill_associations |-> skill_associations]

Post(creator_id, timestamp, gender_requirement, applications_closed, content) ==
    [creator_id |-> creator_id, timestamp |-> timestamp,
     gender_requirement |-> gender_requirement,
     applications_closed |-> applications_closed,
     required_skills |-> content.required_skills, event_type |-> content.event_type,
     coords |-> content.coords, text |-> content.text,
     team_size |-> content.team_size, male_slots |-> content.male_slots,
     female_slots |-> content.female_slots]

NoSkills == [n \in {} |-> ProfileSkill(1, FALSE)]

\* what a post asks for and says
NothingContent ==
    [required_skills |-> {}, event_type |-> None, coords |-> NoCoords, text |-> "",
     team_size |-> 0, male_slots |-> 0, female_slots |-> 0]
BackendContent ==
    [required_skills |-> {"python", "React"}, event_type |-> "Hackathon",
     coords |-> Vellore, text |-> "ai",
     team_size |-> 1, male_slots |-> 0, female_slots |-> 1]
NearbyContent ==
    [required_skills |-> {}, event_type |-> None, coords |-> Kanchipuram, text |-> "web",
     team_size |-> 0, male_slots |-> 0, female_slots |-> 0]

Developer ==
    Profile("Male", "ai", Chennai,
            [n \in {"Python", "flask"} |-> ProfileSkill(1, FALSE)])
Designer ==
    Profile("Female", None, NoCoords, [n \in {"figma"} |-> ProfileSkill(1, FALSE)])
Newcomer == Profile(None, None, NoCoords, NoSkills)
NewMale == Profile("Male", "", Chennai, NoSkills)
Coder ==
    Profile("Female", None, Kanchipuram, [n \in {"python"} |-> ProfileSkill(1, FALSE)])
Expert ==
    Profile("Other", None, Vellore, [n \in {"python"} |-> ProfileSkill(3, TRUE)])

-----------------------------------------------------------------------------
(* The application workflow                                                *)

Application(id, post_id, applicant_id, status) ==
    [id |-> id, post_id |-> post_id, applicant_id |-> applicant_id, status |-> status]

\* the primary key the database gives the next Application row
NewAppId == IF apps = {} THEN 1 ELSE 1 + (CHOOSE m \in {a.id : a \in apps} :
                                              \A a \in apps : a.id <= m)

\* select(Application).where(post_id == p, applicant_id == u)
ExistingApps(p, u) == {a \in apps : a.post_id = p /\ a.applicant_id = u}

\* route /apply/<post_id>
apply_to_post(u, p) ==
    /\ p \in PostIds
    /\ ~posts[p].applications_closed
    /\ ExistingApps(p, u) = {}
    /\ ~GenderConflict(u, p)
    /\ NewAppId \in DOMAIN credited
    /\ apps' = apps \cup {Application(NewAppId, p, u, "Pending")}
    /\ credited' = [credited EXCEPT ![NewAppId] = 0]
    /\ rec' = NoCall /\ urec' = NoUserCall
    /\ UNCHANGED <<threads, rooms, messages, delivered>>
    /\ UNCHANGED <<profiles, posts, teammates, now>>

\* route /api/recommend/apply/<post_id>
recommend_apply(u, p) ==
    /\ p \in PostIds
    /\ ExistingApps(p, u) = {}
    /\ NewAppId \in DOMAIN credited
    /\ apps' = apps \cup {Application(NewAppId, p, u, "Pending")}
    /\ credited' = [credited EXCEPT ![NewAppId] = 0]
    /\ rec' = NoCall /\ urec' = NoUserCall
    /\ UNCHANGED <<threads, rooms, messages, delivered>>
    /\ UNCHANGED <<profiles, posts, teammates, now>>

\* route /invite/<post_id>/<user_id>, requested by user c
invite_user(c, p, u) ==
    /\ p \in PostIds /\ u \in Users
    /\ posts[p].creator_id = c
    /\ ExistingApps(p, u) = {}
    /\ NewAppId \in DOMAIN credited
    /\ apps' = apps \cup {Application(NewAppId, p, u, "Invited")}
    /\ credited' = [credited EXCEPT ![NewAppId] = 0]
    /\ rec' = NoCall /\ urec' = NoUserCall
    /\ UNCHANGED <<threads, rooms, messages, delivered>>
    /\ UNCHANGED <<profiles, posts, teammates, now>>

\* route /manage_post/<post_id>, form close_applications / open_applications
manage_post_close(c, p, closed) ==
    /\ p \in PostIds
    /\ posts[p].creator_id = c
    /\ posts' = [posts EXCEPT ![p].applications_closed = closed]
    /\ rec' = NoCall /\ urec' = NoUserCall
    /\ UNCHANGED <<threads, rooms, messages, delivered>>
    /\ UNCHANGED <<profiles, apps, teammates, now, credited>>

\* the application an accept or reject form of manage_post acts on
ManageableApps(p) == {a \in apps : a.post_id = p}

SetStatus(a, status) == (apps \ {a}) \cup {[a EXCEPT !.status = status]}

\* the ProfileSkill rows of u for the Skill rows post p requires
RequiredAssocs(u, p) == posts[p].required_skills \cap DOMAIN profiles[u].skill_associations

\* assoc.level += 1 for every required skill the applicant holds
LevelsRaised(u, p) ==
    [profiles EXCEPT ![u].skill_associations =
        [n \in DOMAIN @ |-> IF n \in RequiredAssocs(u, p)
                            THEN [@[n] EXCEPT !.level = @ + 1] ELSE @[n]]]

\* the accept form handled for any logged-in user
AcceptByAnyone(c, p, a) ==
    /\ p \in PostIds
    /\ c \in Users
    /\ a \in ManageableApps(p)
    /\ \A n \in RequiredAssocs(a.applicant_id, p) :
          profiles[a.applicant_id].skill_associations[n].level < MaxLevel
    /\ apps' = SetStatus(a, "Accepted")
    /\ teammates' = [teammates EXCEPT ![p] = @ \cup {a.applicant_id}]
    /\ profiles' = LevelsRaised(a.applicant_id, p)
    /\ credited' = IF RequiredAssocs(a.applicant_id, p) = {} THEN credited
                   ELSE [credited EXCEPT ![a.id] = @ + 1]
    /\ rec' = NoCall /\ urec' = NoUserCall
    /\ UNCHANGED <<threads, rooms, messages, delivered>>
    /\ UNCHANGED <<posts, now>>

\* route /manage_post/<post_id>, form app_id with action accept
manage_post_accept(c, p, a) ==
    /\ p \in PostIds
    /\ posts[p].creator_id = c
    /\ a \in ManageableApps(p)
    /\ \A n \in RequiredAssocs(a.applicant_id, p) :
          profiles[a.applicant_id].skill_associations[n].level < MaxLevel
    /\ apps' = SetStatus(a, "Accepted")
    /\ teammates' = [teammates EXCEPT ![p] = @ \cup {a.applicant_id}]
    /\ profiles' = LevelsRaised(a.applicant_id, p)
    /\ credited' = IF RequiredAssocs(a.applicant_id, p) = {} THEN credited
                   ELSE [credited EXCEPT ![a.id] = @ + 1]
    /\ rec' = NoCall /\ urec' = NoUserCall
    /\ UNCHANGED <<threads, rooms, messages, delivered>>
    /\ UNCHANGED <<posts, now>>

\* route /manage_post/<post_id>, form app_id with action reject
manage_post_reject(c, p, a) ==
    /\ p \in PostIds
    /\ posts[p].creator_id = c
    /\ a \in ManageableApps(p)
    /\ apps' = SetStatus(a, "Rejected")
    /\ rec' = NoCall /\ urec' = NoUserCall
    /\ UNCHANGED <<threads, rooms, messages, delivered>>
    /\ UNCHANGED <<profiles, posts, teammates, now, credited>>

\* the applications handle_invitation lets user u answer
AnswerableInvitations(u) == {a \in apps : a.applicant_id = u /\ a.status = "Invited"}

\* route /handle_invitation/<application_id>/accept
handle_invitation_accept(u, a) ==
    /\ a \in AnswerableInvitations(u)
    /\ apps' = SetStatus(a, "Accepted")
    /\ teammates' = [teammates EXCEPT ![a.post_id] = @ \cup {u}]
    /\ rec' = NoCall /\ urec' = NoUserCall
    /\ UNCHANGED <<threads, rooms, messages, delivered>>
    /\ UNCHANGED <<profiles, posts, now, credited>>

\* route /handle_invitation/<application_id>/reject
handle_invitation_reject(u, a) ==
    /\ a \in AnswerableInvitations(u)
    /\ apps' = SetStatus(a, "Rejected")
    /\ rec' = NoCall /\ urec' = NoUserCall
    /\ UNCHANGED <<threads, rooms, messages, delivered>>
    /\ UNCHANGED <<profiles, posts, teammates, now, credited>>

\* route /leave_team/<post_id>: the scalar() query deletes the first matching row
leave_team(u, p) ==
    /\ p \in PostIds
    /\ posts[p].creator_id # u
    /\ u \in teammates[p]
    /\ teammates' = [teammates EXCEPT ![p] = @ \ {u}]
    /\ LET deleted == IF ExistingApps(p, u) = {} THEN {}
                       ELSE {CHOOSE a \in ExistingApps(p, u) :
                                \A b \in ExistingApps(p, u) : a.id <= b.id}
       IN /\ apps' = apps \ deleted
          /\ credited' = [i \in DOMAIN credited |->
                             IF i \in {a.id : a \in deleted} THEN 0 ELSE credited[i]]
    /\ rec' = NoCall /\ urec' = NoUserCall
    /\ UNCHANGED <<threads, rooms, messages, delivered>>
    /\ UNCHANGED <<profiles, posts, now>>

\* route /recommend
recommend(u) == rec.calls = 0 /\ Recommend(u, 6)

\* route /manage_post/<post_id>, GET by user c: recommend_users_for_post(post)
manage_post_view(c, p) ==
    /\ p \in PostIds
    /\ posts[p].creator_id = c
    /\ RecommendUsers(p, 5)

-----------------------------------------------------------------------------
(* Spec: the routes on a site of three users and two posts                 *)

Init ==
    /\ profiles = [u \in Users |-> CASE u = 1 -> Developer [] u = 2 -> Coder
                                     [] OTHER -> Newcomer]
    /\ posts = <<Post(1, 1, "Any", FALSE, BackendContent),
                 Post(2, 2, None, FALSE, NearbyContent)>>
    /\ teammates = [p \in {1, 2} |-> {}]
    /\ apps = {}
    /\ now = 3
    /\ rec = NoCall /\ urec = NoUserCall
    /\ credited = [i \in 1..MaxAppId |-> 0]
    /\ threads = [t \in 1..MaxThreads |-> Idle]
    /\ rooms = {} /\ messages = {} /\ delivered = NoEmit

Next ==
    \/ \E u \in Users, p \in PostIds : apply_to_post(u, p)
    \/ \E u \in Users, p \in PostIds : recommend_apply(u, p)
    \/ \E c \in Users, p \in PostIds, u \in Users : invite_user(c, p, u)
    \/ \E c \in Users, p \in PostIds, closed \in BOOLEAN : manage_post_close(c, p, closed)
    \/ \E c \in Users, p \in PostIds, a \in apps : manage_post_accept(c, p, a)
    \/ \E c \in Users, p \in PostIds, a \in apps : manage_post_reject(c, p, a)
    \/ \E u \in Users, a \in apps : handle_invitation_accept(u, a)
    \/ \E u \in Users, a \in apps : handle_invitation_reject(u, a)
    \/ \E u \in Users, p \in PostIds : leave_team(u, p)
    \/ \E u \in Users : recommend(u)
    \/ \E c \in Users, p \in PostIds : manage_post_view(c, p)

Spec == Init /\ [][Next]_vars

-----------------------------------------------------------------------------
(* SpecRank: the ranker applied to drawn snapshots of open posts           *)

RankContents == {NothingContent, BackendContent}
RankCreators == {2, 3}

\* n posts in creation order; the first k are older than the recency window
InitRank ==
    /\ profiles = [u \in Users |-> CASE u = 1 -> Developer [] u = 2 -> Designer
                                     [] OTHER -> Newcomer]
    /\ \E n \in 0..MaxRankPosts : \E k \in 0..n :
          /\ now = 40 + n
          /\ \E cr \in [1..n -> RankCreators], ct \in [1..n -> RankContents] :
                posts = [i \in 1..n |->
                            Post(cr[i], IF i <= k THEN i ELSE 39 + i, "Any", FALSE, ct[i])]
          /\ teammates = [i \in 1..n |-> {}]
    /\ apps = {}
    /\ rec = NoCall /\ urec = NoUserCall
    /\ credited = [i \in 1..MaxAppId |-> 0]
    /\ threads = [t \in 1..MaxThreads |-> Idle]
    /\ rooms = {} /\ messages = {} /\ delivered = NoEmit

NextRank ==
    \/ \E limit \in Limits : Recommend(1, limit)
    \/ Recommend(3, 6)

SpecRank == InitRank /\ [][NextRank]_vars

-----------------------------------------------------------------------------
(* SpecCold: the ranker applied to a user without skills, applications, bio *)

ColdCreators == {2, 3}

\* n posts in creation order, open or closed, by user 2 or by the caller
InitCold ==
    /\ profiles = [u \in Users |-> CASE u = 1 -> Developer [] u = 2 -> Designer
                                     [] OTHER -> NewMale]
    /\ \E n \in 0..MaxColdPosts :
          /\ now = n + 1
          /\ \E cr \in [1..n -> ColdCreators], cl \in [1..n -> BOOLEAN] :
                posts = [i \in 1..n |->
                            Post(cr[i], i, "Any", cl[i],
                                 IF i % 2 = 1 THEN BackendContent ELSE NearbyContent)]
          /\ teammates = [i \in 1..n |-> {}]
    /\ apps = {}
    /\ rec = NoCall /\ urec = NoUserCall
    /\ credited = [i \in 1..MaxAppId |-> 0]
    /\ threads = [t \in 1..MaxThreads |-> Idle]
    /\ rooms = {} /\ messages = {} /\ delivered = NoEmit

NextCold == \E limit \in Limits : Recommend(3, limit)

SpecCold == InitCold /\ [][NextCold]_vars

-----------------------------------------------------------------------------
(* SpecFilter: both paths of the ranker on posts that differ in creator,   *)
(* gender requirement and closed flag                                      *)

FilterCreators == {1, 2}
GenderRequirements == {None, "Any", "Female"}

InitFilter ==
    /\ profiles = [u \in Users |-> CASE u = 1 -> Developer [] u = 2 -> Designer
                                     [] OTHER -> NewMale]
    /\ \E n \in 0..MaxFilterPosts :
          /\ now = n + 1
          /\ \E cr \in [1..n -> FilterCreators], cl \in [1..n -> BOOLEAN],
                gr \in [1..n -> GenderRequirements] :
                posts = [i \in 1..n |-> Post(cr[i], i, gr[i], cl[i], BackendContent)]
          /\ teammates = [i \in 1..n |-> {}]
    /\ apps = {}
    /\ rec = NoCall /\ urec = NoUserCall
    /\ credited = [i \in 1..MaxAppId |-> 0]
    /\ threads = [t \in 1..MaxThreads |-> Idle]
    /\ rooms = {} /\ messages = {} /\ delivered = NoEmit

\* the route calls the ranker with its default limit
NextFilter == \E u \in Users : Recommend(u, 6)

SpecFilter == InitFilter /\ [][NextFilter]_vars

-----------------------------------------------------------------------------
(* SpecUsers: recommend_users_for_post applied to drawn sets of users      *)

UserSamples == {Developer, Coder, Designer, Newcomer, Expert}
UsersContents == {BackendContent, NearbyContent}

\* user 1 created the one post; users 2..n are the candidates
InitUsers ==
    /\ \E n \in 1..MaxUsers : \E others \in [2..n -> UserSamples] :
          profiles = [u \in 1..n |-> IF u = 1 THEN Developer ELSE others[u]]
    /\ \E content \in UsersContents : posts = <<Post(1, 1, None, FALSE, content)>>
    /\ teammates = <<{}>>
    /\ apps = {}
    /\ now = 2
    /\ rec = NoCall /\ urec = NoUserCall
    /\ credited = [i \in 1..MaxAppId |-> 0]
    /\ threads = [t \in 1..MaxThreads |-> Idle]
    /\ rooms = {} /\ messages = {} /\ delivered = NoEmit

NextUsers == \E limit \in Limits : RecommendUsers(1, limit)

SpecUsers == InitUsers /\ [][NextUsers]_vars

-----------------------------------------------------------------------------
(* SpecGeo: both recommenders on users and posts at drawn coordinates      *)

\* no coordinates, one of the two missing, six places (one at latitude 0.0)
GeoCoords ==
    {NoCoords, <<NoneFloat, 8027>>, <<1308, NoneFloat>>,
     Chennai, Vellore, Kanchipuram, Bengaluru, Delhi, Pontianak}

\* user 1 lives at a and user 3 at b; user 2 has no coordinates and created
\* three posts, at b, at a and at c
InitGeo ==
    /\ \E a \in GeoCoords, b \in GeoCoords, c \in GeoCoords :
          /\ profiles = [u \in Users |-> CASE u = 1 -> [Developer EXCEPT !.coords = a]
                                           [] u = 2 -> Designer
                                           [] OTHER -> [Coder EXCEPT !.coords = b]]
          /\ posts = <<Post(2, 1, None, FALSE, [BackendContent EXCEPT !.coords = b]),
                       Post(2, 2, None, FALSE, [BackendContent EXCEPT !.coords = a]),
                       Post(2, 3, None, FALSE, [BackendContent EXCEPT !.coords = c])>>
    /\ teammates = [p \in 1..3 |-> {}]
    /\ apps = {}
    /\ now = 4
    /\ rec = NoCall /\ urec = NoUserCall
    /\ credited = [i \in 1..MaxAppId |-> 0]
    /\ threads = [t \in 1..MaxThreads |-> Idle]
    /\ rooms = {} /\ messages = {} /\ delivered = NoEmit

NextGeo ==
    \/ \E u \in {1, 3} : recommend(u)
    \/ \E p \in PostIds : manage_post_view(2, p)

SpecGeo == InitGeo /\ [][NextGeo]_vars

-----------------------------------------------------------------------------
(* SpecRarity: the ranker on posts that require one skill under two spellings *)

\* the Skill rows a post may require: none, the row 'python', the seeded row 'Python'
RaritySkills == {{}, {"python"}, {"Python"}}

\* n fresh posts of user 2, each with a drawn required skill
InitRarity ==
    /\ profiles = [u \in Users |-> CASE u = 1 -> Developer [] u = 2 -> Designer
                                     [] OTHER -> Newcomer]
    /\ \E n \in 0..MaxRarityPosts : \E rs \in [1..n -> RaritySkills] :
          /\ posts = [i \in 1..n |->
                         Post(2, i, None, FALSE, [NothingContent EXCEPT !.required_skills = rs[i]])]
          /\ teammates = [i \in 1..n |-> {}]
          /\ now = n + 1
    /\ apps = {}
    /\ rec = NoCall /\ urec = NoUserCall
    /\ credited = [i \in 1..MaxAppId |-> 0]
    /\ threads = [t \in 1..MaxThreads |-> Idle]
    /\ rooms = {} /\ messages = {} /\ delivered = NoEmit

NextRarity == recommend(1)

SpecRarity == InitRarity /\ [][NextRarity]_vars

-----------------------------------------------------------------------------
(* SpecSkills: the ranker on drawn skill sets of the user and of the post  *)

\* Skill rows of every category, and one outside the taxonomy
SkillNames ==
    {"python", "flask", "React", "figma", "docker", "sql", "swift", "pandas", "cobol"}

SkillSets == {S \in SUBSET SkillNames : Cardinality(S) <= MaxSkills}

\* user 1 holds the skills us; the one post, by user 2, requires the skills rs
InitSkills ==
    /\ \E us \in SkillSets, rs \in SkillSets :
          /\ profiles = [u \in Users |->
                            CASE u = 1 -> [Developer EXCEPT !.skill_associations =
                                              [n \in us |-> ProfileSkill(1, FALSE)]]
                              [] u = 2 -> Designer
                              [] OTHER -> Newcomer]
          /\ posts = <<Post(2, 1, None, FALSE, [BackendContent EXCEPT !.required_skills = rs])>>
    /\ teammates = <<{}>>
    /\ apps = {}
    /\ now = 2
    /\ rec = NoCall /\ urec = NoUserCall
    /\ credited = [i \in 1..MaxAppId |-> 0]
    /\ threads = [t \in 1..MaxThreads |-> Idle]
    /\ rooms = {} /\ messages = {} /\ delivered = NoEmit

NextSkills == recommend(1)

SpecSkills == InitSkills /\ [][NextSkills]_vars

-----------------------------------------------------------------------------
(* SpecRecency: the ranker on posts of every age up to MaxAge days         *)

\* two posts of user 2, created on days t1 <= t2, ranked on day MaxAge
InitRecency ==
    /\ profiles = [u \in Users |-> CASE u = 1 -> Developer [] u = 2 -> Designer
                                     [] OTHER -> Newcomer]
    /\ \E t1 \in 0..MaxAge : \E t2 \in t1..MaxAge :
          posts = <<Post(2, t1, None, FALSE, BackendContent),
                    Post(2, t2, None, FALSE, BackendContent)>>
    /\ teammates = <<{}, {}>>
    /\ apps = {}
    /\ now = MaxAge
    /\ rec = NoCall /\ urec = NoUserCall
    /\ credited = [i \in 1..MaxAppId |-> 0]
    /\ threads = [t \in 1..MaxThreads |-> Idle]
    /\ rooms = {} /\ messages = {} /\ delivered = NoEmit

NextRecency == recommend(1)

SpecRecency == InitRecency /\ [][NextRecency]_vars

-----------------------------------------------------------------------------
(* SpecText: the ranker on small corpora of drawn texts                    *)

\* description + idea of a post: empty, stop words only, or one vocabulary term
PostTexts == {"", "the", "ai", "web"}

\* Profile.bio: NULL, empty, stop words only, or one vocabulary term
Bios == {None, "", "the", "ai"}

\* n posts of user 2 with drawn texts; user 1 has skills, a drawn bio and may
\* have applied to post 1
InitText ==
    /\ \E bio \in Bios :
          profiles = [u \in Users |-> CASE u = 1 -> [Coder EXCEPT !.bio = bio]
                                         [] u = 2 -> Designer
                                         [] OTHER -> Newcomer]
    /\ \E n \in 0..MaxTextPosts : \E tx \in [1..n -> PostTexts] :
          /\ posts = [i \in 1..n |->
                         Post(2, i, None, FALSE, [BackendContent EXCEPT !.text = tx[i]])]
          /\ teammates = [i \in 1..n |-> {}]
          /\ now = n + 1
          /\ apps \in IF n = 0 THEN {{}} ELSE {{}, {Application(1, 1, 1, "Pending")}}
    /\ rec = NoCall /\ urec = NoUserCall
    /\ credited = [i \in 1..MaxAppId |-> 0]
    /\ threads = [t \in 1..MaxThreads |-> Idle]
    /\ rooms = {} /\ messages = {} /\ delivered = NoEmit

NextText == recommend(1)

SpecText == InitText /\ [][NextText]_vars

-----------------------------------------------------------------------------
(* SpecRace: apply, recommend-apply and invite requests for one post,      *)
(* handled by server threads that interleave between the SELECT of an      *)
(* existing application and the commit of the new row                      *)

\* the row a thread is about to insert
PendingInsert(p, u, status) ==
    [route |-> "insert", post_id |-> p, applicant_id |-> u, status |-> status]

\* apply_to_post up to the checks: the thread has found no existing application
apply_to_post_select(t, u, p) ==
    /\ threads[t] = Idle
    /\ p \in PostIds
    /\ ~posts[p].applications_closed
    /\ ExistingApps(p, u) = {}
    /\ ~GenderConflict(u, p)
    /\ threads' = [threads EXCEPT ![t] = PendingInsert(p, u, "Pending")]
    /\ UNCHANGED <<profiles, posts, apps, teammates, now, rec, urec, credited>>
    /\ UNCHANGED <<rooms, messages, delivered>>

\* recommend_apply up to the check
recommend_apply_select(t, u, p) ==
    /\ threads[t] = Idle
    /\ p \in PostIds
    /\ ExistingApps(p, u) = {}
    /\ threads' = [threads EXCEPT ![t] = PendingInsert(p, u, "Pending")]
    /\ UNCHANGED <<profiles, posts, apps, teammates, now, rec, urec, credited>>
    /\ UNCHANGED <<rooms, messages, delivered>>

\* invite_user up to the check, requested by user c
invite_user_select(t, c, p, u) ==
    /\ threads[t] = Idle
    /\ p \in PostIds /\ u \in Users
    /\ posts[p].creator_id = c
    /\ ExistingApps(p, u) = {}
    /\ threads' = [threads EXCEPT ![t] = PendingInsert(p, u, "Invited")]
    /\ UNCHANGED <<profiles, posts, apps, teammates, now, rec, urec, credited>>
    /\ UNCHANGED <<rooms, messages, delivered>>

\* db.session.add(application); db.session.commit()
insert_commit(t) ==
    /\ threads[t] # Idle
    /\ NewAppId \in DOMAIN credited
    /\ apps' = apps \cup {Application(NewAppId, threads[t].post_id,
                                      threads[t].applicant_id, threads[t].status)}
    /\ credited' = [credited EXCEPT ![NewAppId] = 0]
    /\ threads' = [threads EXCEPT ![t] = Idle]
    /\ rec' = NoCall /\ urec' = NoUserCall
    /\ UNCHANGED <<profiles, posts, teammates, now, rooms, messages, delivered>>

InitRace ==
    /\ profiles = [u \in Users |-> CASE u = 1 -> Developer [] u = 2 -> Coder
                                     [] OTHER -> Newcomer]
    /\ posts = <<Post(1, 1, "Any", FALSE, BackendContent)>>
    /\ teammates = [p \in {1} |-> {}]
    /\ apps = {}
    /\ now = 3
    /\ rec = NoCall /\ urec = NoUserCall
    /\ credited = [i \in 1..MaxRows |-> 0]
    /\ threads = [t \in 1..MaxThreads |-> Idle]
    /\ rooms = {} /\ messages = {} /\ delivered = NoEmit

NextRace ==
    \/ \E t \in 1..MaxThreads, u \in Users, p \in PostIds : apply_to_post_select(t, u, p)
    \/ \E t \in 1..MaxThreads, u \in Users, p \in PostIds : recommend_apply_select(t, u, p)
    \/ \E t \in 1..MaxThreads, c \in Users, p \in PostIds, u \in Users :
          invite_user_select(t, c, p, u)
    \/ \E t \in 1..MaxThreads : insert_commit(t)

SpecRace == InitRace /\ [][NextRace]_vars

-----------------------------------------------------------------------------
(* SpecGender: the routes on a site whose first post is restricted to      *)
(* female applicants                                                       *)

InitGender ==
    /\ profiles = [u \in Users |-> CASE u = 1 -> Developer [] u = 2 -> Coder
                                     [] OTHER -> Newcomer]
    /\ posts = <<Post(2, 1, "Female", FALSE, BackendContent),
                 Post(1, 2, "Any", FALSE, NearbyContent)>>
    /\ teammates = [p \in {1, 2} |-> {}]
    /\ apps = {}
    /\ now = 3
    /\ rec = NoCall /\ urec = NoUserCall
    /\ credited = [i \in 1..MaxAppId |-> 0]
    /\ threads = [t \in 1..MaxThreads |-> Idle]
    /\ rooms = {} /\ messages = {} /\ delivered = NoEmit

SpecGender == InitGender /\ [][Next]_vars

-----------------------------------------------------------------------------
(* SpecTeam: a post created with a team size, and the requests that fill   *)
(* its team                                                                *)

\* what the create_post form holds: team size and the two slot counts
TeamContents ==
    {[BackendContent EXCEPT !.team_size = ts, !.male_slots = m, !.female_slots = f] :
        ts \in 1..MaxTeamSize, m \in 0..MaxTeamSize, f \in 0..MaxTeamSize}

\* create_post stores the post unless team_size > 0 and the slots do not add up
create_post_accepts(content) ==
    ~(content.team_size > 0
        /\ content.male_slots + content.female_slots # content.team_size)

\* one post of user 1, created from any form that create_post accepts
InitTeam ==
    /\ profiles = [u \in Users |-> CASE u = 1 -> Developer [] u = 2 -> Coder
                                     [] OTHER -> Newcomer]
    /\ \E content \in TeamContents :
          /\ create_post_accepts(content)
          /\ posts = <<Post(1, 1, "Any", FALSE, content)>>
    /\ teammates = [p \in {1} |-> {}]
    /\ apps = {}
    /\ now = 3
    /\ rec = NoCall /\ urec = NoUserCall
    /\ credited = [i \in 1..MaxRows |-> 0]
    /\ threads = [t \in 1..MaxThreads |-> Idle]
    /\ rooms = {} /\ messages = {} /\ delivered = NoEmit

NextTeam ==
    \/ \E u \in Users, p \in PostIds : apply_to_post(u, p)
    \/ \E c \in Users, p \in PostIds, u \in Users : invite_user(c, p, u)
    \/ \E c \in Users, p \in PostIds, a \in apps : manage_post_accept(c, p, a)
    \/ \E u \in Users, a \in apps : handle_invitation_accept(u, a)

SpecTeam == InitTeam /\ [][NextTeam]_vars

-----------------------------------------------------------------------------
(* SpecChat: the team chat and whiteboard of one post                      *)

\* current_user in post.teammates or current_user == post.creator
IsMember(u, p) == u \in teammates[p] \/ u = posts[p].creator_id

\* the users whose socket is in room str(p)
InRoom(p) == {u \in Users : <<p, u>> \in rooms}

\* emit(event, to=str(p), skip_sid=request.sid), sent while handling u's event
Broadcast(event, p, u) ==
    [event |-> event, post_id |-> p, sender_id |-> u, to |-> InRoom(p) \ {u}]

\* route /chat/<post_id>, POST with content
chat_post(u, p) ==
    /\ p \in PostIds
    /\ IsMember(u, p)
    /\ messages' = messages \cup {<<p, u>>}
    /\ UNCHANGED <<profiles, posts, apps, teammates, now, rec, urec, credited>>
    /\ UNCHANGED <<threads, rooms, delivered>>

\* event join: the status message goes to the whole room, the joiner included
handle_join(u, p) ==
    /\ p \in PostIds
    /\ IsMember(u, p)
    /\ rooms' = rooms \cup {<<p, u>>}
    /\ delivered' = [event |-> "status", post_id |-> p, sender_id |-> u,
                     to |-> InRoom(p) \cup {u}]
    /\ UNCHANGED <<profiles, posts, apps, teammates, now, rec, urec, credited>>
    /\ UNCHANGED <<threads, messages>>

\* event send_message with content
handle_send_message(u, p) ==
    /\ p \in PostIds
    /\ IsMember(u, p)
    /\ messages' = messages \cup {<<p, u>>}
    /\ delivered' = Broadcast("receive_message", p, u)
    /\ UNCHANGED <<profiles, posts, apps, teammates, now, rec, urec, credited>>
    /\ UNCHANGED <<threads, rooms>>

\* event drawing, sent by any logged-in user
handle_drawing(u, p) ==
    /\ p \in PostIds
    /\ delivered' = Broadcast("drawing", p, u)
    /\ UNCHANGED <<profiles, posts, apps, teammates, now, rec, urec, credited>>
    /\ UNCHANGED <<threads, rooms, messages>>

\* event clear_canvas, sent by any logged-in user
handle_clear_canvas(u, p) ==
    /\ p \in PostIds
    /\ delivered' = Broadcast("clear_canvas", p, u)
    /\ UNCHANGED <<profiles, posts, apps, teammates, now, rec, urec, credited>>
    /\ UNCHANGED <<threads, rooms, messages>>

InitChat ==
    /\ profiles = [u \in Users |-> CASE u = 1 -> Developer [] u = 2 -> Coder
                                     [] OTHER -> Newcomer]
    /\ posts = <<Post(1, 1, "Any", FALSE, BackendContent)>>
    /\ teammates = [p \in {1} |-> {}]
    /\ apps = {}
    /\ now = 3
    /\ rec = NoCall /\ urec = NoUserCall
    /\ credited = [i \in 1..MaxAppId |-> 0]
    /\ threads = [t \in 1..MaxThreads |-> Idle]
    /\ rooms = {} /\ messages = {} /\ delivered = NoEmit

NextChat ==
    \/ \E u \in Users, p \in PostIds : apply_to_post(u, p)
    \/ \E c \in Users, p \in PostIds, a \in apps : manage_post_accept(c, p, a)
    \/ \E u \in Users, p \in PostIds : leave_team(u, p)
    \/ \E u \in Users, p \in PostIds : chat_post(u, p)
    \/ \E u \in Users, p \in PostIds : handle_join(u, p)
    \/ \E u \in Users, p \in PostIds : handle_send_message(u, p)
    \/ \E u \in Users, p \in PostIds : handle_drawing(u, p)
    \/ \E u \in Users, p \in PostIds : handle_clear_canvas(u, p)

SpecChat == InitChat /\ [][NextChat]_vars

-----------------------------------------------------------------------------
(* Properties of the answer held in rec                                    *)

Called == rec.calls > 0
Scored == Called /\ ~rec.cold

\* how often creator c occurs in a list of posts
CreatorCount(list, c) == Cardinality({i \in DOMAIN list : posts[list[i]].creator_id = c})

\* the candidates of u that survive the filters with a positive total score
PositiveCandidates(u) ==
    {p \in PostIds : /\ posts[p].creator_id # u
                     /\ ~posts[p].applications_closed
                     /\ p \notin applied_post_ids(u)
                     /\ p \notin teammate_post_ids(u)
                     /\ ~GenderConflict(u, p)
                     /\ total_score(u, p) > 0}

Descending(u, list, from, to) ==
    \A i \in from..to : i < to => total_score(u, list[i]) >= total_score(u, list[i + 1])

\* C5 (as claimed): in any returned list of length 3 or more no creator occurs
\* more than twice, unless the backfill step ran.
C5_CapOnAnyList ==
    (Called /\ Len(rec.result) >= 3 /\ ~rec.backfilled)
        => \A c \in Users : CreatorCount(rec.result, c) <= 2

\* C5 (amended): in a list of length 3 or more returned for a user who is not a
\* cold-start user, no creator occurs more than twice unless the backfill step ran.
C5_CapOnScoredList ==
    (Scored /\ Len(rec.result) >= 3 /\ ~rec.backfilled)
        => \A c \in Users : CreatorCount(rec.result, c) <= 2

\* C5 witness: a scored list of 3 posts, no backfill, while some creator has more
\* than two positive candidates (the cap skipped one).
C5_Witness ==
    /\ Scored /\ Len(rec.result) >= 3 /\ ~rec.backfilled
    /\ \E c \in Users :
          Cardinality({p \in PositiveCandidates(rec.user) : posts[p].creator_id = c}) > 2

\* C6: for a user who is not a cold-start user the returned list has no duplicates
\* and exactly min(limit, number of positive-score candidates) posts.
C6_LengthAndNoDuplicates ==
    Scored =>
        /\ Len(rec.result) = Min(rec.limit, Cardinality(PositiveCandidates(rec.user)))
        /\ \A i, j \in DOMAIN rec.result : i # j => rec.result[i] # rec.result[j]
        /\ Range(rec.result) \subseteq PositiveCandidates(rec.user)

\* C6 witness: the backfill ran and filled the list up to the limit.
C6_Witness ==
    /\ Scored /\ rec.backfilled
    /\ Len(rec.result) = rec.limit
    /\ rec.capped < rec.limit

\* C7 (as claimed): the list returned for a user who is not a cold-start user is
\* ordered by total score descending, backfilled posts included.
C7_DescendingThroughout ==
    Scored => Descending(rec.user, rec.result, 1, Len(rec.result))

\* C7 (amended): the posts of the capped pass are in descending score order, and
\* so are the backfilled posts appended after them; without backfill the whole
\* list is descending.
C7_DescendingPerPass ==
    Scored =>
        /\ Descending(rec.user, rec.result, 1, rec.capped)
        /\ Descending(rec.user, rec.result, rec.capped + 1, Len(rec.result))
        /\ rec.capped <= Len(rec.result)
        /\ ~rec.backfilled => rec.capped = Len(rec.result)

\* C7 witness: a backfilled list with two posts of different score in each pass.
C7_Witness ==
    /\ Scored /\ rec.backfilled
    /\ rec.capped >= 2 /\ Len(rec.result) > rec.capped
    /\ total_score(rec.user, rec.result[1]) > total_score(rec.user, rec.result[rec.capped])

\* C8: every post returned for a user who is not a cold-start user has a total
\* score above 0; a candidate whose components are all 0 is not returned.
C8_PositiveScores ==
    Scored => \A i \in DOMAIN rec.result : total_score(rec.user, rec.result[i]) > 0

\* C8 witness: the backfill ran short of the limit while a candidate with total
\* score 0 was left out.
C8_Witness ==
    /\ Scored /\ rec.backfilled /\ Len(rec.result) < rec.limit
    /\ \E p \in PostIds :
          /\ posts[p].creator_id # rec.user /\ ~posts[p].applications_closed
          /\ ~SkippedCandidate(rec.user, p)
          /\ total_score(rec.user, p) = 0
          /\ p \notin Range(rec.result)

C1_NoGenderConflictReturned ==
    Called => \A i \in DOMAIN rec.result : ~GenderConflict(rec.user, rec.result[i])

\* C3: get_recommended_posts returns neither a post created by the user nor a
\* post whose applications are closed, on any path.
C3_NoOwnNoClosed ==
    Called => \A i \in DOMAIN rec.result :
                 /\ posts[rec.result[i]].creator_id # rec.user
                 /\ ~posts[rec.result[i]].applications_closed

\* C3 witness: a non-empty answer while the user has a post of their own and
\* another user's post is closed.
C3_Witness ==
    /\ Called /\ rec.result # <<>>
    /\ \E p \in PostIds : posts[p].creator_id = rec.user
    /\ \E p \in PostIds : posts[p].creator_id # rec.user /\ posts[p].applications_closed

\* the open posts of other users
ColdEligible(u) == {p \in PostIds : posts[p].creator_id # u /\ ~posts[p].applications_closed}

\* C4: a user without skills, applications and bio gets only open posts of other
\* users, newest first, and they are the most recent ones (at most 5), whatever
\* the posts score.
C4_ColdStartByRecency ==
    (Called /\ is_new_user(rec.user)) =>
        /\ rec.cold
        /\ Range(rec.result) \subseteq ColdEligible(rec.user)
        /\ \A i, j \in DOMAIN rec.result :
              i < j => posts[rec.result[i]].timestamp > posts[rec.result[j]].timestamp
        /\ \A p \in ColdEligible(rec.user) \ Range(rec.result) :
              \A i \in DOMAIN rec.result : posts[p].timestamp <= posts[rec.result[i]].timestamp
        /\ Len(rec.result) = Min(5, Cardinality(ColdEligible(rec.user)))

\* C4 witness: a cold-start answer that leaves an older open post out and lists a
\* post before one of higher total score.
C4_Witness ==
    /\ Called /\ rec.cold
    /\ ColdEligible(rec.user) \ Range(rec.result) # {}
    /\ \E i, j \in DOMAIN rec.result :
          i < j /\ total_score(rec.user, rec.result[i]) < total_score(rec.user, rec.result[j])

\* C2: whatever applications, invitations, accepts, rejects and leaves came
\* before, get_recommended_posts returns no post the user has an Application for
\* (any status) and no post the user is a teammate of.
C2_NoAppliedNoTeamPost ==
    Called => \A i \in DOMAIN rec.result :
                 /\ ExistingApps(rec.result[i], rec.user) = {}
                 /\ rec.user \notin teammates[rec.result[i]]

\* C2 witness: a non-empty answer for a user who has an application for another
\* post and is a teammate of it.
C2_Witness ==
    /\ Called /\ rec.result # <<>>
    /\ \E p \in PostIds : ExistingApps(p, rec.user) # {} /\ rec.user \in teammates[p]

AllowedStatusChanges ==
    {<<"Pending", "Accepted">>, <<"Pending", "Rejected">>,
     <<"Invited", "Accepted">>, <<"Invited", "Rejected">>}

\* C10: in every step of the routes an Application's status changes only along
\* Pending->Accepted, Pending->Rejected, Invited->Accepted, Invited->Rejected;
\* an Accepted or Rejected status never changes again.
C10_StatusStateMachine ==
    [][\A a \in apps : \A b \in apps' :
          (a.id = b.id /\ a.status # b.status) => <<a.status, b.status>> \in AllowedStatusChanges]_vars

-----------------------------------------------------------------------------
(* Properties of the application workflow                                  *)

\* the requests that answer application a: accept or reject in manage_post by c,
\* accept or reject in handle_invitation by c
AnswerOf(c, a) ==
    \/ manage_post_accept(c, a.post_id, a) \/ manage_post_reject(c, a.post_id, a)
    \/ handle_invitation_accept(c, a) \/ handle_invitation_reject(c, a)

\* C11: an accept or reject request (manage_post or handle_invitation) on an
\* Application whose status is neither Pending nor Invited is a no-op: the
\* application's status, the post's teammates and every skill level stay as they are.
C11_SettledApplicationUntouched ==
    [][\A a \in apps : \A c \in Users :
          (a.status \notin {"Pending", "Invited"} /\ AnswerOf(c, a))
              => UNCHANGED <<apps, teammates, profiles>>]_vars

\* C12: the skill levels of an applicant are raised at most once on account of
\* one Application, however often accept is submitted for it.
C12_LevelsRaisedOncePerApplication ==
    \A a \in apps : credited[a.id] <= 1

\* C13: whenever an Application's status becomes Accepted (accept in manage_post
\* or in handle_invitation), the same step puts the applicant into the post's
\* teammates and raises by exactly 1 the level of every ProfileSkill of the
\* applicant for a required skill of the post.
C13_AcceptedWithBothEffects ==
    [][\A a \in apps : \A b \in apps' :
          (a.id = b.id /\ a.status # "Accepted" /\ b.status = "Accepted")
              => /\ b.applicant_id \in teammates'[b.post_id]
                 /\ \A n \in RequiredAssocs(b.applicant_id, b.post_id) :
                       profiles'[b.applicant_id].skill_associations[n].level
                           = profiles[b.applicant_id].skill_associations[n].level + 1]_vars

\* the users holding an Accepted Application to post p
AcceptedApplicants(p) == {a.applicant_id : a \in {b \in apps : b.post_id = p /\ b.status = "Accepted"}}

\* C14: in every committed state the teammates of every post are exactly the
\* users that have an Application to that post with status Accepted.
C14_TeammatesAreAccepted ==
    \A p \in PostIds : teammates[p] = AcceptedApplicants(p)

\* C15: a call of get_recommended_posts or of recommend_users_for_post leaves the
\* persistent state as it was: every step that records an answer of either
\* function leaves profiles (with their skill levels), posts, applications and
\* teammates unchanged.
C15_RankingCallsChangeNothing ==
    [][((rec' # rec /\ rec' # NoCall) \/ (urec' # urec /\ urec' # NoUserCall))
          => UNCHANGED <<profiles, posts, apps, teammates>>]_vars

\* C15 witness: both functions have answered, with a non-empty list each, on a
\* snapshot that holds an accepted application and a teammate.
C15_Witness ==
    /\ rec.calls > 0 /\ rec.result # <<>>
    /\ urec.post # 0 /\ urec.result # <<>>
    /\ \E a \in apps : a.status = "Accepted" /\ a.applicant_id \in teammates[a.post_id]

-----------------------------------------------------------------------------
(* Properties of the answer held in urec                                   *)

UsersCalled == urec.post # 0

\* C16: after any sequence of apply, invite, accept, reject and leave,
\* recommend_users_for_post(post) returns neither the post's creator nor a
\* teammate of the post nor a user with an Application to the post, whatever its
\* status.
C16_NoCreatorTeammateApplicant ==
    UsersCalled =>
        \A i \in DOMAIN urec.result :
            /\ urec.result[i] # posts[urec.post].creator_id
            /\ urec.result[i] \notin teammates[urec.post]
            /\ ExistingApps(urec.post, urec.result[i]) = {}

\* C16 witness: an answer for a post to which a user other than the creator has
\* an Application; the user's total score is positive, so only the exclusion
\* keeps the user out.
C16_Witness ==
    /\ UsersCalled
    /\ \E u \in Users :
          /\ u # posts[urec.post].creator_id
          /\ ExistingApps(urec.post, u) # {}
          /\ users_total_score(urec.post, u) > 0

\* the users that are neither creator nor teammate nor applicant of post p and
\* have a positive total score for it
PositiveUsers(p) ==
    {u \in DOMAIN profiles : /\ u # posts[p].creator_id
                             /\ u \notin teammates[p]
                             /\ ExistingApps(p, u) = {}
                             /\ users_total_score(p, u) > 0}

\* C17: recommend_users_for_post(post, limit) returns min(limit, n) distinct users
\* out of the n non-excluded candidates with total score > 0, in descending order
\* of total score, and no candidate left out scores higher than a returned one;
\* the list is never longer than limit.
C17_TopUsersByScore ==
    UsersCalled =>
        LET p == urec.post
            result == urec.result
        IN /\ Len(result) = Min(urec.limit, Cardinality(PositiveUsers(p)))
           /\ Range(result) \subseteq PositiveUsers(p)
           /\ \A i, j \in DOMAIN result : i # j => result[i] # result[j]
           /\ \A i, j \in DOMAIN result :
                 i < j => users_total_score(p, result[i]) >= users_total_score(p, result[j])
           /\ \A u \in PositiveUsers(p) \ Range(result) : \A i \in DOMAIN result :
                 users_total_score(p, u) <= users_total_score(p, result[i])

\* C17 witness: the list was cut at the limit while a positive candidate and a
\* candidate with total score 0 were left out, and the list holds two scores.
C17_Witness ==
    /\ UsersCalled /\ Len(urec.result) = urec.limit /\ urec.limit >= 2
    /\ PositiveUsers(urec.post) \ Range(urec.result) # {}
    /\ \E u \in DOMAIN profiles :
          u # posts[urec.post].creator_id /\ users_total_score(urec.post, u) = 0
    /\ users_total_score(urec.post, urec.result[1])
          > users_total_score(urec.post, urec.result[Len(urec.result)])

-----------------------------------------------------------------------------
(* Properties of the location scores                                       *)

\* C18: the geo-proximity score is symmetric in both recommenders: a user at A
\* scored against a post at B gets the location score of a user at B scored
\* against a post at A, for any two optional coordinate pairs A and B.
C18_LocationScoreSymmetric ==
    \A u1 \in Users, u2 \in Users, p1 \in PostIds, p2 \in PostIds :
        (profiles[u1].coords = posts[p2].coords /\ posts[p1].coords = profiles[u2].coords)
            => /\ location_score(u1, p1) = location_score(u2, p2)
               /\ users_location_score(p1, u1) = users_location_score(p2, u2)

\* C18 witness: both recommenders have answered while user 1 and post 1 lie at
\* different places close enough to score in both functions.
C18_Witness ==
    /\ rec.calls > 0 /\ UsersCalled
    /\ profiles[1].coords # posts[1].coords
    /\ location_score(1, 1) > 0 /\ users_location_score(1, 1) > 0

\* a coordinate pair without a latitude or without a longitude
LacksCoordinate(c) == c = NoCoords \/ c[1] = NoneFloat \/ c[2] = NoneFloat

\* the pairs of a user and a post that both have latitude and longitude
LocatedPairs ==
    {up \in Users \X PostIds :
        ~LacksCoordinate(profiles[up[1]].coords) /\ ~LacksCoordinate(posts[up[2]].coords)}

Distance(up) == great_circle(profiles[up[1]].coords, posts[up[2]].coords)

PostsRequiring(s) == Cardinality({q \in PostIds : s \in required_skills(q)})

\* C20: in get_recommended_posts the rarity_bonus of a returned post is the number
\* of matched skills (in both lower-cased skill sets) that fewer than 5 posts
\* require; a matched skill required by 5 or more posts adds 0, whatever letter
\* case its name is stored in.
C20_RarityCountsAllSpellings ==
    Scored =>
        \A i \in DOMAIN rec.result :
            rarity_bonus(rec.user, rec.result[i])
                = Cardinality({s \in matched_skills(rec.user, rec.result[i]) : PostsRequiring(s) < 5})

-----------------------------------------------------------------------------
(* Properties of the component scores                                      *)

\* category cat contains one of the skills
Covers(cat, skills) == SKILL_CATEGORIES[cat] \cap skills # {}

\* C21: in get_recommended_posts complementary_score is the number of categories
\* that contain a required skill of the post, contain no skill of the user and
\* are listed in COMPLEMENTARY_PAIRS of a category the user has; user skills
\* {python, flask} against required skills {python, react} give skill_score 1
\* and complementary_score 1, and the weighted complementary part (8) is at
\* least the weighted skill part (4).
C21_ComplementaryCategories ==
    Scored =>
        \A p \in PostIds :
            LET mine == user_skills(rec.user)
                asked == required_skills(p)
            IN /\ complementary_score(rec.user, p)
                     = Cardinality({cat \in DOMAIN SKILL_CATEGORIES :
                           /\ Covers(cat, asked) /\ ~Covers(cat, mine)
                           /\ \E c \in DOMAIN COMPLEMENTARY_PAIRS :
                                 Covers(c, mine) /\ cat \in COMPLEMENTARY_PAIRS[c]})
               /\ (mine = {"python", "flask"} /\ asked = {"python", "react"})
                     => /\ skill_score(rec.user, p) = 1
                        /\ complementary_score(rec.user, p) = 1
                        /\ complementary_score(rec.user, p) * WEIGHTS.complementary = 8 * 20
                        /\ skill_score(rec.user, p) * WEIGHTS.skill = 4 * 20

\* C21 witness: the ranker has answered the user with skills {python, flask}
\* about the post that requires {python, react}.
C21_Witness ==
    /\ Scored /\ rec.result = <<1>>
    /\ user_skills(rec.user) = {"python", "flask"}
    /\ required_skills(1) = {"python", "react"}

\* the age of post p in whole days
AgeInDays(p) == now - posts[p].timestamp

NoTextSignal(u) ==
    \/ Len(posts) + LikedCount(u) < 2
    \/ Vocabulary(u) = {}
    \/ LikedCount(u) = 0

\* total_score without its text-similarity part
ScoreOfOtherSignals(u, p) ==
    skill_score(u, p) * WEIGHTS.skill + complementary_score(u, p) * WEIGHTS.complementary
    + rarity_bonus(u, p) * WEIGHTS.rarity + event_type_score(u, p) * WEIGHTS.event_type
    + recency_score(p) * WEIGHTS.recency + location_score(u, p) * WEIGHTS.location

\* C23: when the corpus has fewer than 2 documents or an empty vocabulary, or the
\* user has neither applied-post texts nor a bio, the text-similarity score is 0
\* for every post and get_recommended_posts still answers with the list ranked
\* by the other signals.
C23_NoTextSignalStillRanks ==
    (Scored /\ NoTextSignal(rec.user)) =>
        /\ \A p \in PostIds :
              /\ nlp_score(rec.user, p) = 0
              /\ total_score(rec.user, p) = ScoreOfOtherSignals(rec.user, p)
        /\ Range(rec.result) =
              {p \in PostIds : /\ ~SkippedCandidate(rec.user, p)
                               /\ ScoreOfOtherSignals(rec.user, p) > 0}
        /\ \A i, j \in DOMAIN rec.result :
              i < j => ScoreOfOtherSignals(rec.user, rec.result[i])
                          >= ScoreOfOtherSignals(rec.user, rec.result[j])

\* C23 witness: a corpus of two or more documents, a liked text among them, but
\* an empty vocabulary (the vectorizer raises ValueError), and a non-empty answer.
C23_Witness ==
    /\ Scored /\ rec.result # <<>>
    /\ Len(posts) + LikedCount(rec.user) >= 2
    /\ LikedCount(rec.user) > 0
    /\ Vocabulary(rec.user) = {}

-----------------------------------------------------------------------------
(* Properties of the guards of the workflow                                *)

\* the Application rows a step inserts
Inserted == {a \in apps' : a.id \notin {b.id : b \in apps}}

\* C25: no step creates an Application for a post whose gender_requirement is
\* set, is not 'Any' and differs from the applicant's gender at that moment,
\* and no such user becomes a teammate of that post.
C25_NoApplicationAgainstGender ==
    [][/\ \A a \in Inserted : ~GenderConflict(a.applicant_id, a.post_id)
       /\ \A p \in PostIds : \A u \in teammates'[p] \ teammates[p] :
             ~GenderConflict(u, p)]_vars

\* the Pending applications of post p
PendingOf(as, p) == {a \in as : a.post_id = p /\ a.status = "Pending"}

\* C26: while a post's applications_closed flag is true, no step adds a
\* Pending application to that post.
C26_ClosedPostGetsNoApplication ==
    [][\A p \in PostIds :
          posts[p].applications_closed
              => {a.id : a \in PendingOf(apps', p)} \subseteq {a.id : a \in PendingOf(apps, p)}]_vars

\* application a has status `from` before the step and status `to` after it
Moves(a, from, to) ==
    /\ a \in apps /\ a.status = from
    /\ \E b \in apps' : b.id = a.id /\ b.status = to

\* C27: an Invited application becomes Accepted, and the invited user enters
\* the post's teammates, only by that user's own accept in handle_invitation.
C27_InvitationAcceptedByInviteeOnly ==
    [][\A a \in apps :
          Moves(a, "Invited", "Accepted") => handle_invitation_accept(a.applicant_id, a)]_vars

\* the step changes the status of application a
StatusChanged(a) ==
    /\ a \in apps
    /\ \E b \in apps' : b.id = a.id /\ b.status # a.status

\* the step is an accept or reject form of manage_post(p) sent by user c for a
ManagedBy(c, p, a) == manage_post_accept(c, p, a) \/ manage_post_reject(c, p, a)

\* the step is user u's answer to invitation a
AnsweredBy(u, a) == handle_invitation_accept(u, a) \/ handle_invitation_reject(u, a)

\* C28: an Application's status is modified only by manage_post requests of the
\* creator of the application's post, for an application of that post, or by
\* handle_invitation requests of the applicant of an Invited application.
C28_StatusChangedByAuthorizedUser ==
    [][/\ \A a \in apps :
             StatusChanged(a) => \/ \E c \in Users, p \in PostIds : ManagedBy(c, p, a)
                                 \/ \E u \in Users : AnsweredBy(u, a)
       /\ \A c \in Users, p \in PostIds, a \in apps :
             ManagedBy(c, p, a) => c = posts[a.post_id].creator_id /\ p = a.post_id
       /\ \A u \in Users, a \in apps :
             AnsweredBy(u, a) => u = a.applicant_id /\ a.status = "Invited"]_vars

\* an application of somebody else than the creator has been settled
C28_Witness ==
    \E a \in apps :
        /\ a.status \in {"Accepted", "Rejected"}
        /\ a.applicant_id # posts[a.post_id].creator_id

\* C29: for every post created with team_size > 0 the number of users in
\* post.teammates never exceeds team_size.
C29_TeamWithinTeamSize ==
    \A p \in PostIds :
        posts[p].team_size > 0 => Cardinality(teammates[p]) <= posts[p].team_size

-----------------------------------------------------------------------------
(* Properties of concurrent requests                                       *)

\* C24: in every reachable state there is at most one Application per
\* (post, applicant) pair, also when two requests for the same pair are
\* handled concurrently by different threads.
C24_OneApplicationPerPair ==
    \A a, b \in apps :
        (a.post_id = b.post_id /\ a.applicant_id = b.applicant_id) => a = b

-----------------------------------------------------------------------------
(* Properties of the team chat                                             *)

ChatEvents == {"receive_message", "drawing", "clear_canvas"}

\* the step broadcasts one of the chat events
ChatBroadcast == delivered' # delivered /\ delivered'.event \in ChatEvents

\* C30: a chat broadcast of a post's room reaches, and comes from, only users
\* who are the post's creator or one of its teammates at that moment, and a
\* ChatMessage is stored only for such a user.
C30_ChatForMembersOnly ==
    [][/\ ChatBroadcast =>
             /\ \A u \in delivered'.to : IsMember(u, delivered'.post_id)
             /\ IsMember(delivered'.sender_id, delivered'.post_id)
       /\ \A m \in messages' \ messages : IsMember(m[2], m[1])]_vars

====
